---- MODULE Spec2Model ----
(***************************************************************************)
(* NodeModal (src/features/modals/NodeModal/index.tsx): the node editor    *)
(* modal of the JSON graph viewer.  The model has three layers:            *)
(*   - JSON text: JSON.parse and JSON.stringify over character sequences;  *)
(*   - the JavaScript heap: objects and arrays are cells with identity,    *)
(*     so that cloning, aliasing and in-place writes are distinguishable;  *)
(*   - the component: its React state, the document store and the          *)
(*     outstanding setContents promises.                                   *)
(***************************************************************************)
EXTENDS Integers, Sequences, FiniteSets, TLC

(***************************************************************************)
(* Bounds of the model.                                                    *)
(***************************************************************************)
\* longest path handed to updateJsonByPath
MaxPathLen == 2
\* largest array index used as a path segment
MaxIndex == 1
\* number of handleSave runs that reach the updater in one behaviour
MaxSaves == 2
\* the longest row list handed to normalizeNodeData on its own
MaxRows == 2

(***************************************************************************)
(* JavaScript strings are sequences of one-character strings.              *)
(***************************************************************************)
Digits == <<"0", "1", "2", "3", "4", "5", "6", "7", "8", "9">>

IsDigit(c) == \E d \in 1..10 : Digits[d] = c

DigitOf(c) == (CHOOSE d \in 1..10 : Digits[d] = c) - 1

RECURSIVE NatToStr(_)
NatToStr(n) ==
  IF n < 10 THEN <<Digits[n + 1]>>
  ELSE NatToStr(n \div 10) \o <<Digits[(n % 10) + 1]>>

\* Number::toString for the integers of the model
NumToStr(n) == IF n < 0 THEN <<"-">> \o NatToStr(0 - n) ELSE NatToStr(n)

RECURSIVE StrToNat(_)
StrToNat(s) ==
  IF Len(s) = 0 THEN 0
  ELSE 10 * StrToNat(SubSeq(s, 1, Len(s) - 1)) + DigitOf(s[Len(s)])

\* a canonical array index: "0", "1", "12", but not "01" or ""
IsArrayIndexKey(k) ==
  /\ Len(k) > 0
  /\ \A i \in 1..Len(k) : IsDigit(k[i])
  /\ (Len(k) = 1 \/ k[1] # "0")

(***************************************************************************)
(* JavaScript values.  Primitives are tagged records; an object or array   *)
(* is either a tree (the value JSON.parse describes, children inline) or,  *)
(* on the heap, a cell whose children are primitives or references.        *)
(* An object keeps its own keys in property order (ks) and their values    *)
(* (f); an array keeps its elements (e, a hole is Undef) and, like any     *)
(* object, named properties (ks, f).                                       *)
(***************************************************************************)
Null == [t |-> "null"]
Undef == [t |-> "undefined"]
Num(n) == [t |-> "number", n |-> n]
Bool(b) == [t |-> "boolean", b |-> b]
Str(s) == [t |-> "string", s |-> s]
Ref(a) == [t |-> "ref", a |-> a]
NoProps == [k \in {} |-> Undef]
Obj(ks, f) == [t |-> "object", ks |-> ks, f |-> f]
Arr(e) == [t |-> "array", e |-> e, ks |-> <<>>, f |-> NoProps]
EmptyObj == Obj(<<>>, NoProps)

IsPrim(v) == v.t \in {"null", "undefined", "number", "boolean", "string"}

\* OrdinaryOwnPropertyKeys: array-index keys first in ascending order, then
\* the other keys in creation order
RECURSIVE InsertKey(_, _)
InsertKey(ks, k) ==
  IF \E i \in 1..Len(ks) : ks[i] = k THEN ks
  ELSE IF ~IsArrayIndexKey(k) THEN Append(ks, k)
  ELSE IF Len(ks) = 0 THEN <<k>>
  ELSE IF IsArrayIndexKey(ks[1]) /\ StrToNat(ks[1]) < StrToNat(k)
       THEN <<ks[1]>> \o InsertKey(Tail(ks), k)
       ELSE <<k>> \o ks

\* [[Set]] of an own data property of an object (cell or tree)
PutProp(o, k, v) ==
  [o EXCEPT !.ks = InsertKey(o.ks, k),
            !.f = [x \in (DOMAIN o.f) \cup {k} |-> IF x = k THEN v ELSE o.f[x]]]

(***************************************************************************)
(* JSON.stringify(value, null, 2) on a tree.                               *)
(***************************************************************************)
Gap == <<" ", " ">>

RECURSIVE QuoteChars(_)
QuoteChars(s) ==
  IF Len(s) = 0 THEN <<>>
  ELSE (CASE s[1] = "\"" -> <<"\\", "\"">>
          [] s[1] = "\\" -> <<"\\", "\\">>
          [] s[1] = "\n" -> <<"\\", "n">>
          [] s[1] = "\t" -> <<"\\", "t">>
          [] s[1] = "\r" -> <<"\\", "r">>
          [] OTHER -> <<s[1]>>) \o QuoteChars(Tail(s))

\* QuoteJSONString
Quote(s) == <<"\"">> \o QuoteChars(s) \o <<"\"">>

RECURSIVE JoinLines(_, _)
\* the members of parts, separated by "," newline indent
JoinLines(parts, indent) ==
  IF Len(parts) = 0 THEN <<>>
  ELSE IF Len(parts) = 1 THEN parts[1]
  ELSE parts[1] \o <<",", "\n">> \o indent \o JoinLines(Tail(parts), indent)

RECURSIVE SerializeJSONProperty(_, _)
RECURSIVE SerializeMembers(_, _, _)
RECURSIVE SerializeElements(_, _, _)
\* the members of object o for the keys ks, skipping undefined values
SerializeMembers(o, ks, indent) ==
  IF Len(ks) = 0 THEN <<>>
  ELSE IF o.f[ks[1]].t = "undefined" THEN SerializeMembers(o, Tail(ks), indent)
  ELSE <<Quote(ks[1]) \o <<":", " ">> \o SerializeJSONProperty(o.f[ks[1]], indent)>>
       \o SerializeMembers(o, Tail(ks), indent)

\* the elements e of an array, a hole or undefined written as null
SerializeElements(e, i, indent) ==
  IF i > Len(e) THEN <<>>
  ELSE <<IF e[i].t = "undefined" THEN <<"n", "u", "l", "l">>
         ELSE SerializeJSONProperty(e[i], indent)>>
       \o SerializeElements(e, i + 1, indent)

SerializeJSONProperty(v, stepback) ==
  CASE v.t = "null" -> <<"n", "u", "l", "l">>
    [] v.t = "boolean" ->
         IF v.b THEN <<"t", "r", "u", "e">> ELSE <<"f", "a", "l", "s", "e">>
    [] v.t = "number" -> NumToStr(v.n)
    [] v.t = "string" -> Quote(v.s)
    [] v.t = "object" ->
         LET indent == stepback \o Gap
             partial == SerializeMembers(v, v.ks, indent)
         IN IF Len(partial) = 0 THEN <<"{", "}">>
            ELSE <<"{", "\n">> \o indent \o JoinLines(partial, indent)
                 \o <<"\n">> \o stepback \o <<"}">>
    [] v.t = "array" ->
         LET indent == stepback \o Gap
             partial == SerializeElements(v.e, 1, indent)
         IN IF Len(partial) = 0 THEN <<"[", "]">>
            ELSE <<"[", "\n">> \o indent \o JoinLines(partial, indent)
                 \o <<"\n">> \o stepback \o <<"]">>

\* JSON.stringify(v, null, 2), for a value that is not undefined
Stringify(v) == SerializeJSONProperty(v, <<>>)

(***************************************************************************)
(* JSON.parse: a recursive-descent parser over the characters.  Numbers    *)
(* are the integers; fractions and exponents are outside the alphabet of   *)
(* the texts the model draws.                                              *)
(***************************************************************************)
Fail == [ok |-> FALSE]
IsWs(c) == c \in {" ", "\n", "\t", "\r"}

RECURSIVE SkipWs(_, _)
SkipWs(s, i) == IF i <= Len(s) /\ IsWs(s[i]) THEN SkipWs(s, i + 1) ELSE i

\* whether word w stands in s at position i
Matches(s, i, w) ==
  /\ i + Len(w) - 1 <= Len(s)
  /\ \A j \in 1..Len(w) : s[i + j - 1] = w[j]

RECURSIVE ParseStringBody(_, _, _)
\* the characters after an opening quote, up to the closing one
ParseStringBody(s, i, acc) ==
  IF i > Len(s) THEN Fail
  ELSE IF s[i] = "\"" THEN [ok |-> TRUE, v |-> acc, i |-> i + 1]
  ELSE IF s[i] = "\n" \/ s[i] = "\t" \/ s[i] = "\r" THEN Fail
  ELSE IF s[i] = "\\" THEN
    IF i + 1 > Len(s) THEN Fail
    ELSE IF s[i + 1] = "\"" \/ s[i + 1] = "\\" \/ s[i + 1] = "/"
      THEN ParseStringBody(s, i + 2, Append(acc, s[i + 1]))
    ELSE IF s[i + 1] = "n" THEN ParseStringBody(s, i + 2, Append(acc, "\n"))
    ELSE IF s[i + 1] = "t" THEN ParseStringBody(s, i + 2, Append(acc, "\t"))
    ELSE IF s[i + 1] = "r" THEN ParseStringBody(s, i + 2, Append(acc, "\r"))
    ELSE Fail
  ELSE ParseStringBody(s, i + 1, Append(acc, s[i]))

RECURSIVE DigitsEnd(_, _)
\* the position after the run of digits starting at i
DigitsEnd(s, i) == IF i <= Len(s) /\ IsDigit(s[i]) THEN DigitsEnd(s, i + 1) ELSE i

\* an integer: -? (0 | [1-9][0-9]*)
ParseNumber(s, i) ==
  LET neg == i <= Len(s) /\ s[i] = "-"
      b == IF neg THEN i + 1 ELSE i
      e == DigitsEnd(s, b)
  IN IF e = b THEN Fail
     ELSE IF s[b] = "0" /\ e > b + 1 THEN Fail
     ELSE IF e <= Len(s) /\ s[e] \in {".", "e", "E"} THEN Fail
     ELSE [ok |-> TRUE,
           v |-> Num(IF neg THEN 0 - StrToNat(SubSeq(s, b, e - 1))
                     ELSE StrToNat(SubSeq(s, b, e - 1))),
           i |-> e]

RECURSIVE ParseValue(_, _)
RECURSIVE ParseElements(_, _, _)
RECURSIVE ParseMembers(_, _, _)
\* after "[" or ",": an element, then "," or "]"
ParseElements(s, i, acc) ==
  LET r == ParseValue(s, SkipWs(s, i))
  IN IF ~r.ok THEN Fail
     ELSE LET j == SkipWs(s, r.i)
              acc2 == Append(acc, r.v)
          IN IF j > Len(s) THEN Fail
             ELSE IF s[j] = "," THEN ParseElements(s, j + 1, acc2)
             ELSE IF s[j] = "]" THEN [ok |-> TRUE, v |-> Arr(acc2), i |-> j + 1]
             ELSE Fail

\* after "{" or ",": a "key" : value member, then "," or "}"
ParseMembers(s, i, o) ==
  LET j == SkipWs(s, i)
  IN IF j > Len(s) \/ s[j] # "\"" THEN Fail
     ELSE LET k == ParseStringBody(s, j + 1, <<>>)
          IN IF ~k.ok THEN Fail
             ELSE LET c == SkipWs(s, k.i)
                  IN IF c > Len(s) \/ s[c] # ":" THEN Fail
                     ELSE LET r == ParseValue(s, SkipWs(s, c + 1))
                          IN IF ~r.ok THEN Fail
                             ELSE LET n == SkipWs(s, r.i)
                                      o2 == PutProp(o, k.v, r.v)
                                  IN IF n > Len(s) THEN Fail
                                     ELSE IF s[n] = "," THEN ParseMembers(s, n + 1, o2)
                                     ELSE IF s[n] = "}"
                                       THEN [ok |-> TRUE, v |-> o2, i |-> n + 1]
                                     ELSE Fail

ParseValue(s, i) ==
  IF i > Len(s) THEN Fail
  ELSE IF Matches(s, i, <<"n", "u", "l", "l">>) THEN [ok |-> TRUE, v |-> Null, i |-> i + 4]
  ELSE IF Matches(s, i, <<"t", "r", "u", "e">>)
    THEN [ok |-> TRUE, v |-> Bool(TRUE), i |-> i + 4]
  ELSE IF Matches(s, i, <<"f", "a", "l", "s", "e">>)
    THEN [ok |-> TRUE, v |-> Bool(FALSE), i |-> i + 5]
  ELSE IF s[i] = "\"" THEN
    LET r == ParseStringBody(s, i + 1, <<>>)
    IN IF r.ok THEN [ok |-> TRUE, v |-> Str(r.v), i |-> r.i] ELSE Fail
  ELSE IF s[i] = "-" \/ IsDigit(s[i]) THEN ParseNumber(s, i)
  ELSE IF s[i] = "[" THEN
    LET j == SkipWs(s, i + 1)
    IN IF j <= Len(s) /\ s[j] = "]" THEN [ok |-> TRUE, v |-> Arr(<<>>), i |-> j + 1]
       ELSE ParseElements(s, i + 1, <<>>)
  ELSE IF s[i] = "{" THEN
    LET j == SkipWs(s, i + 1)
    IN IF j <= Len(s) /\ s[j] = "}" THEN [ok |-> TRUE, v |-> EmptyObj, i |-> j + 1]
       ELSE ParseMembers(s, i + 1, EmptyObj)
  ELSE Fail

\* JSON.parse(text): [ok |-> TRUE, v |-> tree], or [ok |-> FALSE] for a SyntaxError
JsonParse(text) ==
  LET r == ParseValue(text, SkipWs(text, 1))
  IN IF r.ok /\ SkipWs(text, r.i) = Len(text) + 1 THEN [ok |-> TRUE, v |-> r.v]
     ELSE Fail

(***************************************************************************)
(* The heap: a sequence of cells, an address is an index.  JSON.parse      *)
(* allocates the tree it read; Tree reads a value back from the heap.      *)
(***************************************************************************)
RECURSIVE Alloc(_, _)
RECURSIVE AllocProps(_, _, _, _)
RECURSIVE AllocElems(_, _, _, _)
AllocProps(h, a, t, i) ==
  IF i > Len(t.ks) THEN h
  ELSE LET r == Alloc(h, t.f[t.ks[i]])
       IN AllocProps([r.h EXCEPT ![a] = PutProp(@, t.ks[i], r.v)], a, t, i + 1)

AllocElems(h, a, t, i) ==
  IF i > Len(t.e) THEN h
  ELSE LET r == Alloc(h, t.e[i])
       IN AllocElems([r.h EXCEPT ![a].e = Append(@, r.v)], a, t, i + 1)

\* fresh cells for tree t: [h |-> the heap, v |-> the value (a primitive or a reference)]
Alloc(h, t) ==
  IF IsPrim(t) THEN [h |-> h, v |-> t]
  ELSE LET a == Len(h) + 1
           shell == IF t.t = "array" THEN Arr(<<>>) ELSE EmptyObj
           h1 == AllocProps(Append(h, shell), a, t, 1)
           h2 == IF t.t = "array" THEN AllocElems(h1, a, t, 1) ELSE h1
       IN [h |-> h2, v |-> Ref(a)]

RECURSIVE Tree(_, _)
\* the tree that value v denotes in heap h
Tree(h, v) ==
  IF v.t # "ref" THEN v
  ELSE LET c == h[v.a]
           props == [k \in DOMAIN c.f |-> Tree(h, c.f[k])]
       IN IF c.t = "array"
          THEN [t |-> "array", e |-> [i \in 1..Len(c.e) |-> Tree(h, c.e[i])],
                ks |-> c.ks, f |-> props]
          ELSE [t |-> "object", ks |-> c.ks, f |-> props]

\* structuredClone(v), or JSON.parse(JSON.stringify(v)): a deep copy in fresh cells
safeCloneAliased(h, v) == [h |-> h, v |-> v]
safeClone(h, v) == Alloc(h, Tree(h, v))

(***************************************************************************)
(* Property access.  Path segments are JavaScript values: Str(key) or      *)
(* Num(index).  The keys of the model name no inherited property (length,  *)
(* constructor, __proto__, ...), so a lookup that misses the own           *)
(* properties is undefined.                                                *)
(***************************************************************************)
\* ToPropertyKey
ToKey(seg) == IF seg.t = "number" THEN NumToStr(seg.n) ELSE seg.s

Threw == [thrown |-> TRUE]

\* current[segment]: [thrown |-> FALSE, v |-> value], or a TypeError
GetProp(h, current, segment) ==
  LET k == ToKey(segment)
  IN CASE current.t \in {"null", "undefined"} -> Threw
       [] current.t = "ref" ->
            LET c == h[current.a]
            IN IF c.t = "array" /\ IsArrayIndexKey(k)
               THEN [thrown |-> FALSE,
                     v |-> IF StrToNat(k) < Len(c.e) THEN c.e[StrToNat(k) + 1] ELSE Undef]
               ELSE [thrown |-> FALSE,
                     v |-> IF k \in DOMAIN c.f THEN c.f[k] ELSE Undef]
       [] current.t = "string" ->
            [thrown |-> FALSE,
             v |-> IF IsArrayIndexKey(k) /\ StrToNat(k) < Len(current.s)
                   THEN Str(<<current.s[StrToNat(k) + 1]>>) ELSE Undef]
       [] OTHER -> [thrown |-> FALSE, v |-> Undef]

\* elements e with e[n] (0-based) set to v, holes filling the gap
SetElement(e, n, v) ==
  [i \in 1..(IF n + 1 > Len(e) THEN n + 1 ELSE Len(e)) |->
     IF i = n + 1 THEN v ELSE IF i <= Len(e) THEN e[i] ELSE Undef]

\* current[segment] = v in module (strict mode) code: [thrown |-> FALSE, h |-> heap],
\* or a TypeError when current is null, undefined or a primitive
SetProp(h, current, segment, v) ==
  LET k == ToKey(segment)
  IN IF current.t # "ref" THEN Threw
     ELSE LET c == h[current.a]
          IN IF c.t = "array" /\ IsArrayIndexKey(k)
             THEN [thrown |-> FALSE,
                   h |-> [h EXCEPT ![current.a].e = SetElement(@, StrToNat(k), v)]]
             ELSE [thrown |-> FALSE, h |-> [h EXCEPT ![current.a] = PutProp(@, k, v)]]

(***************************************************************************)
(* updateJsonByPath                                                        *)
(***************************************************************************)
\* current[segment] === undefined
IsAbsentAlways(v) == TRUE
IsAbsent(v) == v.t = "undefined"

\* typeof nextSegment === "number" ? [] : {}
NewContainerObject(nextSegment) == EmptyObj
NewContainer(nextSegment) == IF nextSegment.t = "number" THEN Arr(<<>>) ELSE EmptyObj

\* x !== null && typeof x === "object" && !Array.isArray(x)
IsPlainObject(h, v) == v.t = "ref" /\ h[v.a].t = "object"

RECURSIVE SpreadInto(_, _, _)
\* CopyDataProperties: the own properties of cell src, in key order, onto cell dst
SpreadInto(dst, src, i) ==
  IF i > Len(src.ks) THEN dst
  ELSE SpreadInto(PutProp(dst, src.ks[i], src.f[src.ks[i]]), src, i + 1)

\* { ...existing, ...newValue }: a new cell
SpreadMergeExistingWins(existing, newObj) == SpreadInto(SpreadInto(EmptyObj, newObj, 1), existing, 1)
SpreadMerge(existing, newObj) == SpreadInto(SpreadInto(EmptyObj, existing, 1), newObj, 1)

RECURSIVE Walk(_, _, _, _)
\* the loop over path[0 .. length-2]: [thrown, h, current]
Walk(h, current, path, i) ==
  IF i > Len(path) - 1 THEN [thrown |-> FALSE, h |-> h, current |-> current]
  ELSE LET g == GetProp(h, current, path[i])
       IN IF g.thrown THEN [thrown |-> TRUE, h |-> h]
          ELSE IF IsAbsent(g.v)
            THEN LET n == Alloc(h, NewContainer(path[i + 1]))
                     s == SetProp(n.h, current, path[i], n.v)
                 IN IF s.thrown THEN [thrown |-> TRUE, h |-> n.h]
                    ELSE Walk(s.h, GetProp(s.h, current, path[i]).v, path, i + 1)
            ELSE Walk(h, g.v, path, i + 1)

\* the assignment to current[last], merging two plain objects
AssignLastReplace(h, current, last, newValue) ==
  LET s == SetProp(h, current, last, newValue)
  IN IF s.thrown THEN [thrown |-> TRUE, h |-> h] ELSE [thrown |-> FALSE, h |-> s.h]

AssignLast(h, current, last, newValue) ==
  IF ~IsPlainObject(h, newValue) THEN AssignLastReplace(h, current, last, newValue)
  ELSE LET g == GetProp(h, current, last)
       IN IF g.thrown THEN [thrown |-> TRUE, h |-> h]
          ELSE IF IsPlainObject(h, g.v)
            THEN LET a == Len(h) + 1
                     h1 == Append(h, SpreadMerge(h[g.v.a], h[newValue.a]))
                     s == SetProp(h1, current, last, Ref(a))
                 IN IF s.thrown THEN [thrown |-> TRUE, h |-> h1]
                    ELSE [thrown |-> FALSE, h |-> s.h]
            ELSE AssignLastReplace(h, current, last, newValue)

\* updateJsonByPath(obj, path, newValue) in heap h:
\* [thrown |-> FALSE, h |-> the heap afterwards, v |-> the value returned],
\* or [thrown |-> TRUE, h |-> the heap when the TypeError was thrown]
updateJsonByPath(h, obj, path, newValue) ==
  IF Len(path) = 0 THEN [thrown |-> FALSE, h |-> h, v |-> newValue]
  ELSE LET c == safeClone(h, obj)
           w == Walk(c.h, c.v, path, 1)
       IN IF w.thrown THEN [thrown |-> TRUE, h |-> w.h]
          ELSE LET r == AssignLast(w.h, w.current, path[Len(path)], newValue)
               IN IF r.thrown THEN [thrown |-> TRUE, h |-> r.h]
                  ELSE [thrown |-> FALSE, h |-> r.h, v |-> c.v]

(***************************************************************************)
(* normalizeNodeData.  A row is [key, value, type]: key is Str(k), or      *)
(* Undef when the row has none; value is a tree.                           *)
(***************************************************************************)
\* an array of rows, as NodeData["text"] holds them
RowList(rows) == [t |-> "array", e |-> rows]

\* `${v}` for a primitive
TemplateString(v) ==
  CASE v.t = "string" -> v.s
    [] v.t = "number" -> NumToStr(v.n)
    [] v.t = "boolean" ->
         IF v.b THEN <<"t", "r", "u", "e">> ELSE <<"f", "a", "l", "s", "e">>
    [] v.t = "undefined" -> <<"u", "n", "d", "e", "f", "i", "n", "e", "d">>

\* !x for a key
Falsy(k) == k.t \in {"undefined", "null"} \/ (k.t = "string" /\ Len(k.s) = 0)

RECURSIVE PrimitiveRows(_, _, _)
\* the forEach of normalizeNodeData: obj[row.key] = row.value for the keyed
\* rows whose type is neither array nor object
PrimitiveRows(o, nodeRows, i) ==
  IF i > Len(nodeRows) THEN o
  ELSE LET row == nodeRows[i]
       IN IF row.type # "array" /\ row.type # "object" /\ ~Falsy(row.key)
          THEN PrimitiveRows(PutProp(o, row.key.s, row.value), nodeRows, i + 1)
          ELSE PrimitiveRows(o, nodeRows, i + 1)

\* lines 36-50, rows the elements of a non-empty nodeRows
normalizeRows(rows) ==
  IF Len(rows) = 1 /\ Falsy(rows[1].key)
  THEN LET singleVal == rows[1].value
       IN IF singleVal.t \in {"null", "object", "array"} THEN Stringify(singleVal)
          ELSE TemplateString(singleVal)
  ELSE LET o == PrimitiveRows(EmptyObj, rows, 1)
       IN IF Len(o.ks) > 0 THEN Stringify(o) ELSE <<"{", "}">>

\* nodeRows is Undef (the argument is absent) or RowList(rows)
normalizeNodeData(nodeRows) ==
  IF nodeRows.t = "undefined" THEN <<"{", "}">>
  ELSE IF Len(nodeRows.e) = 0 THEN <<"{", "}">>
  ELSE normalizeRows(nodeRows.e)

(***************************************************************************)
(* jsonPathToString.  The argument is Undef (absent) or PathList(segments). *)
(***************************************************************************)
\* an array of segments, as NodeData["path"] holds them
PathList(segments) == [t |-> "array", e |-> segments]

RECURSIVE EscapeQuotes(_)
\* String(seg).replace(/"/g, '\\"'): every double quote becomes backslash, quote
EscapeQuotesNone(s) == s
EscapeQuotes(s) ==
  IF Len(s) = 0 THEN <<>>
  ELSE (IF Head(s) = "\"" THEN <<"\\", "\"">> ELSE <<Head(s)>>) \o EscapeQuotes(Tail(s))

\* the callback of path.map: `[${seg}]` for a number, `["..."]` otherwise
PathSegment(seg) ==
  IF seg.t = "number" THEN <<"[">> \o NumToStr(seg.n) \o <<"]">>
  ELSE <<"[", "\"">> \o EscapeQuotes(seg.s) \o <<"\"", "]">>

RECURSIVE JoinSegments(_, _)
\* segments.join(""), from the i-th on
JoinSegments(segments, i) ==
  IF i > Len(segments) THEN <<>>
  ELSE segments[i] \o JoinSegments(segments, i + 1)

jsonPathToString(path) ==
  IF path.t = "undefined" THEN <<"$">>
  ELSE IF Len(path.e) = 0 THEN <<"$">>
  ELSE <<"$">> \o JoinSegments([i \in 1..Len(path.e) |-> PathSegment(path.e[i])], 1)

(***************************************************************************)
(* handleSave, from reading the store to the call of setContents           *)
(* (lines 146-175), as a function of what it reads.                        *)
(***************************************************************************)
\* parsedEditedValue: JSON.parse(editedValue), or the text itself as a string
ParseEditedResultNull(e, edited) == IF e.ok THEN e.v ELSE Null
ParseEditedResult(e, edited) == IF e.ok THEN e.v ELSE Str(edited)
ParseEdited(edited) == ParseEditedResult(JsonParse(edited), edited)

\* line 174, or the catch of line 180:
\* kind "threw": updateJsonByPath threw; kind "ok": newContents is computed
SaveRunResult(r, editedOk) ==
  IF r.thrown THEN [kind |-> "threw", editedIsValidJson |-> editedOk]
  ELSE [kind |-> "ok", editedIsValidJson |-> editedOk,
        newContents |-> Stringify(Tree(r.h, r.v))]

\* line 173, b the allocated parsedEditedValue
SaveRunUpdateSkipped(a, b, nodePath, editedOk) ==
  SaveRunResult([thrown |-> FALSE, h |-> b.h, v |-> b.v], editedOk)
SaveRunUpdate(a, b, nodePath, editedOk) ==
  SaveRunResult(updateJsonByPath(b.h, a.v, nodePath, b.v), editedOk)

\* lines 158-166, a the allocated jsonData
SaveRunEdited(a, nodePath, edited, e) ==
  SaveRunUpdate(a, Alloc(a.h, ParseEditedResult(e, edited)), nodePath, e.ok)

\* lines 149-155, d the result of JSON.parse(currentContents);
\* kind "invalid": the current document does not parse
SaveRunParsed(d, nodePath, edited) ==
  IF ~d.ok THEN [kind |-> "invalid"]
  ELSE SaveRunEdited(Alloc(<<>>, d.v), nodePath, edited, JsonParse(edited))

SaveRun(currentContents, nodePath, edited) ==
  SaveRunParsed(JsonParse(currentContents), nodePath, edited)

(***************************************************************************)
(* The inputs the model draws.                                             *)
(***************************************************************************)
KeyA == <<"a">>
KeyB == <<"b">>
KeyX == <<"x">>
KeyY == <<"y">>
O1(k, v) == PutProp(EmptyObj, k, v)
O2(k1, v1, k2, v2) == PutProp(O1(k1, v1), k2, v2)

\* path segments: object keys and array indices
Segments == {Str(KeyA), Str(KeyB)} \cup {Num(i) : i \in 0..MaxIndex}
Paths == UNION {[1..n -> Segments] : n \in 0..MaxPathLen}

\* documents handed to the updater
DocTrees ==
  { EmptyObj,
    O1(KeyA, O1(KeyX, Num(1))),
    O2(KeyA, O2(KeyX, Num(1), KeyB, Arr(<<Num(3)>>)), KeyB, Arr(<<Num(1), O1(KeyA, Null)>>)),
    O2(KeyA, Null, KeyB, Str(<<"h", "i">>)),
    O1(KeyA, Arr(<<>>)),
    O1(KeyB, O1(KeyA, O1(KeyB, O1(KeyX, Bool(TRUE))))),
    Arr(<<>>),
    Arr(<<O1(KeyX, Num(1)), Arr(<<Num(2), EmptyObj>>)>>),
    Num(1), Null, Str(<<"h", "i">>) }
DocTexts == {Stringify(d) : d \in DocTrees}

\* edited texts: JSON, and text that is not JSON
EditTexts ==
  { Stringify(O1(KeyY, Num(2))),
    Stringify(O2(KeyX, O1(KeyY, Num(2)), KeyA, Num(0))),
    <<"{", "}">>,
    <<"[", "7", "]">>,
    <<"5">>,
    <<"n", "u", "l", "l">>,
    <<"\"", "q", "\"">>,
    <<"a", "\"", "c">>,
    <<"{", "\"", "y", "\"", ":">> }

\* the graph's nodes: [text |-> rows, path |-> segments]
Row(k, v, ty) == [key |-> k, value |-> v, type |-> ty]
NoNode == [text |-> <<>>, path |-> <<>>, none |-> TRUE]
NodeRoot ==
  [text |-> <<Row(Str(KeyA), Undef, "object"), Row(Str(KeyB), Undef, "array")>>,
   path |-> <<>>]
NodeA == [text |-> <<Row(Str(KeyX), Num(1), "number")>>, path |-> <<Str(KeyA)>>]
NodeB0 == [text |-> <<Row(Undef, Num(5), "number")>>, path |-> <<Str(KeyB), Num(0)>>]
Nodes == {NodeRoot, NodeA, NodeB0}


\* what the document store holds when the modal is first opened
StoreTexts ==
  { Stringify(O2(KeyA, O1(KeyX, Num(1)), KeyB, Arr(<<Num(5)>>))),
    <<"{", "\"", "a", "\"", ":">> }

\* what the user types into the Textarea
TypedTexts ==
  { <<"{", "\"", "y", "\"", ":", "2", "}">>,
    <<"7">>,
    <<"a", "b">> }

(***************************************************************************)
(* State.                                                                  *)
(***************************************************************************)
VARIABLES
  opened,          \* the modal's opened prop
  nodeData,        \* useGraph's selectedNode, NoNode for null
  contents,        \* the document store's contents (useFile)
  isEditing,       \* useState(false)
  editedValue,     \* useState("")
  originalValue,   \* useState("")
  isSaving,        \* useState(false)
  validationHint,  \* useState(null): TRUE when the hint is shown
  pending,         \* the handleSave runs suspended at await setContents(...)
  toast,           \* the last notification shown
  saves,           \* handleSave runs that passed the isDirty test
  upc,             \* updater harness: "start", "parsed", "returned", "threw", "written"
  uDoc,            \* harness: the document text
  uPath,           \* harness: the path
  uEdit,           \* harness: the edited text
  uHeap,           \* harness: the heap
  uObj,            \* harness: jsonData, the value handed to the updater
  uNew,            \* harness: parsedEditedValue
  uRet,            \* harness: updatedJson, the value the updater returned
  uOut,            \* harness: newContents
  fpc,             \* text functions: "start", "normalized", "formatted"
  fRows,           \* text functions: the nodeRows given to normalizeNodeData
  fPath,           \* text functions: the path given to jsonPathToString
  fOut             \* text functions: the string returned

component == <<opened, nodeData, contents, isEditing, editedValue, originalValue,
               isSaving, validationHint, pending, toast, saves>>
fns == <<fpc, fRows, fPath, fOut>>
upd == <<upc, uDoc, uPath, uEdit, uHeap, uObj, uNew, uRet, uOut>>
harness == <<upd, fns>>
vars == <<component, harness>>

ToastNone == "none"
ToastDiscarded == "Changes discarded"
ToastNoChanges == "No changes to save"
ToastInvalidFile == "Current file is not valid JSON. Cannot save."
ToastUpdated == "Node updated successfully!"
ToastFailed == "Failed to save changes. Please check your JSON syntax."

\* the component as mounted, the store holding one of texts
ComponentInit(texts) ==
  /\ opened = FALSE
  /\ nodeData = NoNode
  /\ contents \in texts
  /\ isEditing = FALSE
  /\ editedValue = <<>>
  /\ originalValue = <<>>
  /\ isSaving = FALSE
  /\ validationHint = FALSE
  /\ pending = <<>>
  /\ toast = ToastNone
  /\ saves = 0

\* no call of normalizeNodeData or jsonPathToString on its own
FnsIdle ==
  /\ fpc = "start"
  /\ fRows = Undef
  /\ fPath = Undef
  /\ fOut = <<>>

\* no call of the updater on its own
UpdIdle ==
  /\ upc = "start"
  /\ uDoc = <<"{", "}">>
  /\ uPath = <<>>
  /\ uEdit = <<"{", "}">>
  /\ uHeap = <<>>
  /\ uObj = Undef
  /\ uNew = Undef
  /\ uRet = Undef
  /\ uOut = <<>>

HarnessIdle == UpdIdle /\ FnsIdle

(***************************************************************************)
(* The component's handlers.                                               *)
(***************************************************************************)
\* useEffect(..., [opened, nodeData]) with the new opened and nodeData
InitEffect(o, n) ==
  IF o /\ n # NoNode
  THEN /\ editedValue' = normalizeNodeData(RowList(n.text))
       /\ originalValue' = normalizeNodeData(RowList(n.text))
       /\ isEditing' = FALSE
       /\ validationHint' = FALSE
  ELSE UNCHANGED <<editedValue, originalValue, isEditing, validationHint>>

\* the parent opens the modal, for the node that was clicked
Open ==
  /\ ~opened
  /\ nodeData # NoNode
  /\ opened' = TRUE
  /\ InitEffect(TRUE, nodeData)
  /\ UNCHANGED <<nodeData, contents, isSaving, pending, toast, saves, harness>>

\* onClose: the parent closes the modal; the component stays mounted
Close ==
  /\ opened
  /\ opened' = FALSE
  /\ UNCHANGED <<nodeData, contents, isEditing, editedValue, originalValue, isSaving,
                 validationHint, pending, toast, saves, harness>>

\* the graph store selects another node (selectedNode is null only before the
\* first selection)
SelectNode ==
  \E n \in Nodes :
    /\ n # nodeData
    /\ nodeData' = n
    /\ InitEffect(opened, n)
    /\ UNCHANGED <<opened, contents, isSaving, pending, toast, saves, harness>>

isDirtyAlways == TRUE
isDirty == editedValue # originalValue

handleEdit ==
  /\ isEditing' = TRUE
  /\ validationHint' = FALSE
  /\ UNCHANGED <<opened, nodeData, contents, editedValue, originalValue, isSaving,
                 pending, toast, saves, harness>>

\* the Edit button, rendered while not editing
ClickEdit == opened /\ ~isEditing /\ handleEdit

\* the Textarea's onChange, rendered while editing
TextareaChange ==
  /\ opened /\ isEditing
  /\ \E t \in TypedTexts :
       /\ t # editedValue
       /\ editedValue' = t
  /\ validationHint' = FALSE
  /\ UNCHANGED <<opened, nodeData, contents, isEditing, originalValue, isSaving,
                 pending, toast, saves, harness>>

handleCancelKeepsText ==
  /\ editedValue' = editedValue
  /\ isEditing' = FALSE
  /\ validationHint' = FALSE
  /\ toast' = ToastDiscarded
  /\ UNCHANGED <<opened, nodeData, contents, originalValue, isSaving, pending, saves,
                 harness>>
handleCancel ==
  /\ editedValue' = originalValue
  /\ isEditing' = FALSE
  /\ validationHint' = FALSE
  /\ toast' = ToastDiscarded
  /\ UNCHANGED <<opened, nodeData, contents, originalValue, isSaving, pending, saves,
                 harness>>

\* the Cancel button's disabled prop
CancelDisabled == isSaving

ClickCancel == opened /\ isEditing /\ ~CancelDisabled /\ handleCancel

\* lines 151-155: the current document does not parse
handleSaveInvalidKeepsSaving ==
  /\ toast' = ToastInvalidFile
  /\ isSaving' = TRUE
  /\ validationHint' = FALSE
  /\ UNCHANGED <<isEditing, originalValue, pending, contents>>
handleSaveInvalid ==
  /\ toast' = ToastInvalidFile
  /\ isSaving' = FALSE
  /\ validationHint' = FALSE
  /\ UNCHANGED <<isEditing, originalValue, pending, contents>>

\* lines 180-185: the updater threw; catch, then finally
handleSaveCaughtLeavesEditing(run) ==
  /\ toast' = ToastFailed
  /\ isSaving' = FALSE
  /\ isEditing' = FALSE
  /\ validationHint' = ~run.editedIsValidJson
  /\ UNCHANGED <<originalValue, pending, contents>>
handleSaveCaught(run) ==
  /\ toast' = ToastFailed
  /\ isSaving' = FALSE
  /\ validationHint' = ~run.editedIsValidJson
  /\ UNCHANGED <<isEditing, originalValue, pending, contents>>

\* line 175: setContents({ contents: newContents }) is called and awaited; the
\* suspended run keeps the editedValue of its closure
handleSaveAwaitNoHint(run) ==
  /\ pending' = Append(pending, [newContents |-> run.newContents,
                                 editedValue |-> editedValue,
                                 currentContents |-> contents,
                                 path |-> nodeData.path])
  /\ isSaving' = TRUE
  /\ validationHint' = FALSE
  /\ UNCHANGED <<isEditing, originalValue, toast, contents>>
handleSaveAwait(run) ==
  /\ pending' = Append(pending, [newContents |-> run.newContents,
                                 editedValue |-> editedValue,
                                 currentContents |-> contents,
                                 path |-> nodeData.path])
  /\ isSaving' = TRUE
  /\ validationHint' = ~run.editedIsValidJson
  /\ UNCHANGED <<isEditing, originalValue, toast, contents>>

\* lines 146-185, run the result of lines 146-174
handleSaveRun(run) ==
  CASE run.kind = "invalid" -> handleSaveInvalid
    [] run.kind = "threw" -> handleSaveCaught(run)
    [] run.kind = "ok" -> handleSaveAwait(run)

handleSave ==
  IF nodeData = NoNode THEN UNCHANGED vars
  ELSE IF ~isDirty
    THEN /\ toast' = ToastNoChanges
         /\ UNCHANGED <<opened, nodeData, contents, isEditing, editedValue, originalValue,
                        isSaving, validationHint, pending, saves, harness>>
  ELSE /\ saves < MaxSaves
       /\ saves' = saves + 1
       /\ handleSaveRun(SaveRun(contents, nodeData.path, editedValue))
       /\ UNCHANGED <<opened, nodeData, editedValue, harness>>

\* the Save button's disabled prop
SaveDisabledIgnoresSaving == ~isDirty
SaveDisabled == isSaving \/ ~isDirty

ClickSave == opened /\ isEditing /\ ~SaveDisabled /\ handleSave

\* the callback run where the Save button is disabled for want of a change or
\* of a node (lines 137-141)
handleSaveInvoked == (nodeData = NoNode \/ editedValue = originalValue) /\ handleSave

\* useFile's setContents({ contents }): the store holds what it was given
StoreWrite(call) == contents' = call.newContents

\* the promise of pending[i] is fulfilled: the store holds the new contents and
\* handleSave resumes at line 177, then runs its finally
setContentsResolvedKeepsBaseline(i) ==
  /\ StoreWrite(pending[i])
  /\ pending' = SubSeq(pending, 1, i - 1) \o SubSeq(pending, i + 1, Len(pending))
  /\ isEditing' = FALSE
  /\ toast' = ToastUpdated
  /\ isSaving' = FALSE
  /\ UNCHANGED <<opened, nodeData, editedValue, originalValue, validationHint, saves,
                 harness>>
setContentsResolved(i) ==
  /\ StoreWrite(pending[i])
  /\ pending' = SubSeq(pending, 1, i - 1) \o SubSeq(pending, i + 1, Len(pending))
  /\ originalValue' = pending[i].editedValue
  /\ isEditing' = FALSE
  /\ toast' = ToastUpdated
  /\ isSaving' = FALSE
  /\ UNCHANGED <<opened, nodeData, editedValue, validationHint, saves, harness>>

\* the promise of pending[i] is rejected: handleSave resumes in its catch
setContentsRejectedKeepsSaving(i) ==
  /\ pending' = SubSeq(pending, 1, i - 1) \o SubSeq(pending, i + 1, Len(pending))
  /\ toast' = ToastFailed
  /\ isSaving' = isSaving
  /\ UNCHANGED <<opened, nodeData, contents, isEditing, editedValue, originalValue,
                 validationHint, saves, harness>>
setContentsRejected(i) ==
  /\ pending' = SubSeq(pending, 1, i - 1) \o SubSeq(pending, i + 1, Len(pending))
  /\ toast' = ToastFailed
  /\ isSaving' = FALSE
  /\ UNCHANGED <<opened, nodeData, contents, isEditing, editedValue, originalValue,
                 validationHint, saves, harness>>

Resolve == \E i \in 1..Len(pending) : setContentsResolved(i)
Reject == \E i \in 1..Len(pending) : setContentsRejected(i)

Init == ComponentInit(StoreTexts) /\ HarnessIdle

Next ==
  \/ Open
  \/ Close
  \/ SelectNode
  \/ ClickEdit
  \/ TextareaChange
  \/ ClickCancel
  \/ ClickSave
  \/ Resolve
  \/ Reject

\* the component as the user drives it
Spec == Init /\ [][Next]_vars

\* the component where every setContents call settles: a pending promise is
\* eventually fulfilled or rejected
SpecSettle == Init /\ [][Next]_vars /\ WF_vars(Resolve \/ Reject)

NextH == Next \/ handleSaveInvoked

\* the component with handleSave also run where its button is disabled
\* because nothing changed or no node is selected
SpecH == Init /\ [][NextH]_vars

(***************************************************************************)
(* The updater on its own: the steps of handleSave's lines 150, 161-166,   *)
(* 173 and 174 for a document text, a path and an edited text drawn from   *)
(* the bounded sets.                                                       *)
(***************************************************************************)
UpdInit ==
  /\ ComponentInit({<<"{", "}">>})
  /\ upc = "start"
  /\ uDoc \in DocTexts
  /\ uPath \in Paths
  /\ uEdit \in EditTexts
  /\ uHeap = <<>>
  /\ uObj = Undef
  /\ uNew = Undef
  /\ uRet = Undef
  /\ uOut = <<>>
  /\ FnsIdle

\* a: the allocated jsonData, b: the allocated parsedEditedValue
ParsedInputs(a, b) ==
  /\ uHeap' = b.h
  /\ uObj' = a.v
  /\ uNew' = b.v

ParseInputsEdited(a) == ParsedInputs(a, Alloc(a.h, ParseEdited(uEdit)))

\* jsonData = JSON.parse(currentContents); parsedEditedValue = JSON.parse(editedValue)
ParseInputs ==
  /\ upc = "start"
  /\ ParseInputsEdited(Alloc(<<>>, JsonParse(uDoc).v))
  /\ upc' = "parsed"
  /\ UNCHANGED <<component, fns, uDoc, uPath, uEdit, uRet, uOut>>

Returned(r) ==
  /\ uHeap' = r.h
  /\ IF r.thrown THEN upc' = "threw" /\ uRet' = uRet
     ELSE upc' = "returned" /\ uRet' = r.v

\* updatedJson = updateJsonByPath(jsonData, path, parsedEditedValue)
CallUpdater ==
  /\ upc = "parsed"
  /\ Returned(updateJsonByPath(uHeap, uObj, uPath, uNew))
  /\ UNCHANGED <<component, fns, uDoc, uPath, uEdit, uObj, uNew, uOut>>

\* newContents = JSON.stringify(updatedJson, null, 2)
Serialize ==
  /\ upc = "returned"
  /\ uOut' = Stringify(Tree(uHeap, uRet))
  /\ upc' = "written"
  /\ UNCHANGED <<component, fns, uDoc, uPath, uEdit, uHeap, uObj, uNew, uRet>>

UpdNext == ParseInputs \/ CallUpdater \/ Serialize

SpecUpd == UpdInit /\ [][UpdNext]_vars

(***************************************************************************)
(* normalizeNodeData on its own, for a row list drawn from the bounded     *)
(* sets.                                                                   *)
(***************************************************************************)
\* a row's key: none, the empty string, a name
RowKeys == {Undef, Str(<<>>), Str(KeyA), Str(KeyB)}
\* a row's value; the row's type names the kind of its value
RowValues ==
  {Num(1), Str(<<"x">>), Null, Arr(<<>>), Arr(<<Num(1)>>), O1(KeyX, Num(1))}
RowSet == {Row(k, v, v.t) : k \in RowKeys, v \in RowValues}
RowLists ==
  {Undef} \cup {RowList(r) : r \in UNION {[1..n -> RowSet] : n \in 0..MaxRows}}

NormInit ==
  /\ ComponentInit({<<"{", "}">>})
  /\ UpdIdle
  /\ fpc = "start"
  /\ fRows \in RowLists
  /\ fPath = Undef
  /\ fOut = <<>>

\* normalizeNodeData(nodeRows)
CallNormalize ==
  /\ fpc = "start"
  /\ fOut' = normalizeNodeData(fRows)
  /\ fpc' = "normalized"
  /\ UNCHANGED <<component, upd, fRows, fPath>>

NormNext == CallNormalize

SpecNorm == NormInit /\ [][NormNext]_vars

(***************************************************************************)
(* jsonPathToString on its own, for a path drawn from the bounded sets.    *)
(***************************************************************************)
\* keys: a name, keys that hold double quotes, brackets, a backslash
PathKeys ==
  { KeyA,
    <<"a", "\"", "b">>,
    <<"\"", "\"">>,
    <<"]", "[">>,
    <<"\\">> }
\* indices of one digit and of two
PathIndices == {0, 1, 10}
PathSegments == {Str(k) : k \in PathKeys} \cup {Num(i) : i \in PathIndices}
PathLists ==
  {Undef} \cup
  {PathList(s) : s \in UNION {[1..n -> PathSegments] : n \in 0..MaxPathLen}}

PathInit ==
  /\ ComponentInit({<<"{", "}">>})
  /\ UpdIdle
  /\ fpc = "start"
  /\ fRows = Undef
  /\ fPath \in PathLists
  /\ fOut = <<>>

\* jsonPathToString(nodeData?.path)
CallPathToString ==
  /\ fpc = "start"
  /\ fOut' = jsonPathToString(fPath)
  /\ fpc' = "formatted"
  /\ UNCHANGED <<component, upd, fRows, fPath>>

PathNext == CallPathToString

SpecPath == PathInit /\ [][PathNext]_vars

(***************************************************************************)
(* Reading documents as values: locations, the value at a path.            *)
(***************************************************************************)
RECURSIVE Plain(_)
\* a tree without its key order: two documents are equal as JSON values when
\* their Plain forms are
Plain(t) ==
  IF IsPrim(t) THEN t
  ELSE IF t.t = "array"
    THEN [t |-> "array", e |-> [i \in 1..Len(t.e) |-> Plain(t.e[i])],
          f |-> [k \in DOMAIN t.f |-> Plain(t.f[k])]]
    ELSE [t |-> "object", f |-> [k \in DOMAIN t.f |-> Plain(t.f[k])]]

\* t[key] for a tree, undefined where JavaScript has no own property (or throws)
TreeGet(t, k) ==
  CASE t.t = "object" -> IF k \in DOMAIN t.f THEN t.f[k] ELSE Undef
    [] t.t = "array" ->
         IF IsArrayIndexKey(k)
         THEN IF StrToNat(k) < Len(t.e) THEN t.e[StrToNat(k) + 1] ELSE Undef
         ELSE IF k \in DOMAIN t.f THEN t.f[k] ELSE Undef
    [] t.t = "string" ->
         IF IsArrayIndexKey(k) /\ StrToNat(k) < Len(t.s)
         THEN Str(<<t.s[StrToNat(k) + 1]>>) ELSE Undef
    [] OTHER -> Undef

RECURSIVE TreeAt(_, _)
\* the value of tree t at the location loc, a sequence of property keys
TreeAt(t, loc) ==
  IF Len(loc) = 0 THEN t ELSE TreeAt(TreeGet(t, loc[1]), Tail(loc))

RECURSIVE Locations(_)
\* the locations of the values a tree holds
Locations(t) ==
  {<<>>} \cup
  (IF IsPrim(t) THEN {}
   ELSE UNION {{<<k>> \o l : l \in Locations(t.f[k])} : k \in DOMAIN t.f}) \cup
  (IF t.t = "array"
   THEN UNION {{<<NatToStr(i - 1)>> \o l : l \in Locations(t.e[i])} : i \in 1..Len(t.e)}
   ELSE {})

IsPrefix(a, b) == Len(a) <= Len(b) /\ SubSeq(b, 1, Len(a)) = a

\* the property keys of a path
KeyPath(p) == [i \in 1..Len(p) |-> ToKey(p[i])]

\* the harness's document before the call, the edited value, and the result
InputDoc == JsonParse(uDoc).v
EditedTree == IF JsonParse(uEdit).ok THEN JsonParse(uEdit).v ELSE Str(uEdit)
ResultDoc == Tree(uHeap, uRet)
Called == upc \in {"returned", "threw", "written"}
HasReturned == upc \in {"returned", "written"}

\* C1: updateJsonByPath never mutates its input document in place: whatever the
\* document, the path (empty or not) and the new value, once the call has
\* returned or thrown, the input document has exactly the value it had before.
C1_InputNotMutated == Called => Tree(uHeap, uObj) = InputDoc

\* a call that created an intermediate array and wrote into it: {} at ["a", 0]
C1_Witness ==
  /\ upc = "returned"
  /\ uDoc = <<"{", "}">>
  /\ uPath = <<Str(KeyA), Num(0)>>
  /\ Plain(ResultDoc) # Plain(InputDoc)

\* C2: for a non-empty path the returned document differs from the input only
\* along the path: every location of the input that is neither a prefix of the
\* path nor at or below its target is present in the result with an equal value.
C2_FrameOffPath ==
  (HasReturned /\ Len(uPath) > 0) =>
    \A loc \in Locations(InputDoc) :
      (~IsPrefix(loc, KeyPath(uPath)) /\ ~IsPrefix(KeyPath(uPath), loc)) =>
        /\ loc \in Locations(ResultDoc)
        /\ Plain(TreeAt(ResultDoc, loc)) = Plain(TreeAt(InputDoc, loc))

\* a returned call on a document with a nested location off the path
C2_Witness ==
  /\ upc = "returned"
  /\ Len(uPath) = 2
  /\ Plain(ResultDoc) # Plain(InputDoc)
  /\ \E loc \in Locations(InputDoc) :
       /\ Len(loc) = 2
       /\ loc[1] = KeyPath(uPath)[1]
       /\ loc[2] # KeyPath(uPath)[2]

\* the value already at the path in the input document (Undef when absent)
ExistingAtPath == TreeAt(InputDoc, KeyPath(uPath))
BothPlainObjects == ExistingAtPath.t = "object" /\ EditedTree.t = "object"

\* every key of nv with nv's content, every other key of ex unchanged
MergedValue(ex, nv) ==
  [t |-> "object",
   f |-> [k \in (DOMAIN ex.f) \cup (DOMAIN nv.f) |->
            IF k \in DOMAIN nv.f THEN Plain(nv.f[k]) ELSE Plain(ex.f[k])]]

\* C3: at the final segment of a non-empty path the updater shallow-merges when
\* and only when the existing value at the path and the new value are both
\* non-null, non-array objects (every key of the new value with its content,
\* every other existing key unchanged); in every other case the value at the
\* path is exactly the new value.  Updater({a:{x:1}}, ["a"], {y:2}) is
\* {a:{x:1,y:2}}.
C3_MergeOrReplace ==
  /\ (HasReturned /\ Len(uPath) > 0) =>
       Plain(TreeAt(ResultDoc, KeyPath(uPath))) =
         IF BothPlainObjects THEN MergedValue(ExistingAtPath, EditedTree)
         ELSE Plain(EditedTree)
  /\ (/\ HasReturned
      /\ uDoc = Stringify(O1(KeyA, O1(KeyX, Num(1))))
      /\ uPath = <<Str(KeyA)>>
      /\ uEdit = Stringify(O1(KeyY, Num(2)))) =>
       Plain(ResultDoc) = Plain(O1(KeyA, O2(KeyX, Num(1), KeyY, Num(2))))

\* a merge in which the two objects share a key with different values and each
\* has a key of its own
C3_Witness ==
  /\ upc = "returned"
  /\ Len(uPath) > 0
  /\ BothPlainObjects
  /\ \E k \in (DOMAIN ExistingAtPath.f) \cap (DOMAIN EditedTree.f) :
       Plain(ExistingAtPath.f[k]) # Plain(EditedTree.f[k])
  /\ (DOMAIN ExistingAtPath.f) \ (DOMAIN EditedTree.f) # {}
  /\ (DOMAIN EditedTree.f) \ (DOMAIN ExistingAtPath.f) # {}

\* the document the store's new contents parse to
ReparsedDoc == JsonParse(uOut).v

\* no string segment of the path indexes an array of the input document
NoKeyOnArray ==
  \A i \in 1..Len(uPath) :
    TreeAt(InputDoc, KeyPath(SubSeq(uPath, 1, i - 1))).t = "array" => uPath[i].t = "number"

\* C4 as claimed: re-parsing serialize(updateJsonByPath(parse(doc), p, v)) yields
\* a document whose value at p equals v, v being the parsed edited text or, when
\* the text is not JSON, the text as a string.
C4_RoundTripAsClaimed ==
  upc = "written" =>
    /\ JsonParse(uOut).ok
    /\ Plain(TreeAt(ReparsedDoc, KeyPath(uPath))) = Plain(EditedTree)

\* C4 as amended: when the updater returns and no string segment of p indexes
\* an array, the re-parsed document's value at p equals v, or, for a non-empty p
\* where the existing value at p and v are both non-array objects, the shallow
\* merge of v over the existing value.
C4_RoundTrip ==
  (upc = "written" /\ NoKeyOnArray) =>
    /\ JsonParse(uOut).ok
    /\ Plain(TreeAt(ReparsedDoc, KeyPath(uPath))) =
         IF Len(uPath) > 0 /\ BothPlainObjects
         THEN MergedValue(ExistingAtPath, EditedTree)
         ELSE Plain(EditedTree)

\* a round trip of edited text that is not JSON, written below an array hole
C4_Witness ==
  /\ upc = "written"
  /\ NoKeyOnArray
  /\ ~JsonParse(uEdit).ok
  /\ \E c \in 1..Len(uEdit) : uEdit[c] = "\""
  /\ Len(uPath) = 2
  /\ uPath[2] = Num(1)
  /\ TreeAt(ReparsedDoc, KeyPath(<<uPath[1], Num(0)>>)) = Null
  /\ TreeAt(ReparsedDoc, KeyPath(uPath)) = Str(uEdit)

\* the keys of the first i segments of the path
PrefixKeys(i) == KeyPath(SubSeq(uPath, 1, i))

\* the intermediate positions (all but the last segment) absent in the input
AbsentIntermediates ==
  {i \in 1..(Len(uPath) - 1) : TreeAt(InputDoc, PrefixKeys(i)).t = "undefined"}
FirstAbsent == CHOOSE i \in AbsentIntermediates : \A j \in AbsentIntermediates : i <= j

\* position i holds, in the result, the container made for its next segment:
\* an array that holds only that index, or an object that holds only that key
CreatedFor(i) ==
  LET c == TreeAt(ResultDoc, PrefixKeys(i))
      nextSegment == uPath[i + 1]
  IN IF nextSegment.t = "number"
     THEN /\ c.t = "array"
          /\ Len(c.e) = nextSegment.n + 1
          /\ \A j \in 1..nextSegment.n : c.e[j] = Undef
          /\ DOMAIN c.f = {}
     ELSE /\ c.t = "object"
          /\ DOMAIN c.f = {nextSegment.s}

\* C5 as claimed: for every document and every non-empty path the updater never
\* throws for a missing intermediate node: each absent intermediate position is
\* created as an empty array when the next segment is an integer and as an empty
\* object otherwise, and the call returns the new cloned document.
C5_CreatesAsClaimed ==
  (Called /\ Len(uPath) > 0 /\ AbsentIntermediates # {}) =>
    /\ upc # "threw"
    /\ \A i \in AbsentIntermediates : CreatedFor(i)

\* C5 as amended: when the first absent intermediate position has an object or
\* an array as its parent, every absent intermediate is created (an array for an
\* integer next segment, an object otherwise) and the call returns a new cloned
\* document; when that parent is a primitive or null the call throws.
\* Updater({}, ["a",0], 5) is {a:[5]}.
C5_CreatesUnderContainer ==
  /\ (Called /\ Len(uPath) > 0 /\ AbsentIntermediates # {}) =>
       IF TreeAt(InputDoc, PrefixKeys(FirstAbsent - 1)).t \in {"object", "array"}
       THEN /\ upc # "threw"
            /\ \A i \in AbsentIntermediates : CreatedFor(i)
            /\ uRet.t = "ref"
            /\ uRet # uObj
       ELSE upc = "threw"
  /\ (HasReturned /\ uDoc = <<"{", "}">> /\ uPath = <<Str(KeyA), Num(0)>>
        /\ uEdit = <<"5">>) =>
       Plain(ResultDoc) = Plain(O1(KeyA, Arr(<<Num(5)>>)))

\* an array created for an integer segment under an existing object
C5_Witness ==
  /\ upc = "returned"
  /\ Len(uPath) = 2
  /\ AbsentIntermediates = {1}
  /\ uPath[2] = Num(1)
  /\ InputDoc.t = "object"
  /\ DOMAIN InputDoc.f # {}
  /\ TreeAt(ResultDoc, PrefixKeys(1)).t = "array"

(***************************************************************************)
(* The save of the component.                                              *)
(***************************************************************************)
\* serialize(updateJsonByPath(parse(currentContents), nodePath, edited value)),
\* the edited value being the parsed text or, when it is not JSON, the text
SavedText(currentContents, nodePath, edited) ==
  LET a == Alloc(<<>>, JsonParse(currentContents).v)
      b == Alloc(a.h, IF JsonParse(edited).ok THEN JsonParse(edited).v ELSE Str(edited))
      r == updateJsonByPath(b.h, a.v, nodePath, b.v)
  IN Stringify(Tree(r.h, r.v))

\* C6: when a save succeeds (the current document parsed, the updater returned
\* and setContents resolved), setContents was given
\* serialize(updateJsonByPath(parse(current contents), the node's path, edited
\* value)), the modal returns to viewing, and the baseline originalValue is the
\* text that was saved.
C6_SaveSuccess ==
  [][\A i \in 1..Len(pending) :
       setContentsResolved(i) =>
         /\ JsonParse(pending[i].currentContents).ok
         /\ pending[i].newContents =
              SavedText(pending[i].currentContents, pending[i].path, pending[i].editedValue)
         /\ ~isEditing'
         /\ originalValue' = pending[i].editedValue]_vars

\* a save of {"y":2} at a non-empty path has succeeded
C6_Witness ==
  /\ toast = ToastUpdated
  /\ ~isEditing
  /\ ~isSaving
  /\ nodeData.path # <<>>
  /\ originalValue = <<"{", "\"", "y", "\"", ":", "2", "}">>
  /\ editedValue = originalValue
  /\ contents \notin StoreTexts

\* C7: when save is invoked while the store's current contents are not
\* parseable JSON, the save aborts with no mutation: setContents is not called,
\* the error notice is shown, and afterwards the modal is still editing with
\* editedValue and originalValue unchanged and the saving flag false.
C7_InvalidDocumentAborts ==
  [][(ClickSave /\ ~JsonParse(contents).ok) =>
       /\ pending' = pending
       /\ contents' = contents
       /\ toast' = ToastInvalidFile
       /\ isEditing'
       /\ editedValue' = editedValue
       /\ originalValue' = originalValue
       /\ ~isSaving']_vars

\* a save was attempted on an unparseable document
C7_Witness ==
  /\ toast = ToastInvalidFile
  /\ ~JsonParse(contents).ok
  /\ isEditing
  /\ isDirty
  /\ ~isSaving
  /\ pending = <<>>

\* a step in which a save fails: the document is unparseable or the updater
\* throws (in handleSave), or setContents rejects
SaveFails ==
  \/ /\ ClickSave
     /\ SaveRun(contents, nodeData.path, editedValue).kind \in {"invalid", "threw"}
  \/ \E i \in 1..Len(pending) : setContentsRejected(i)

C9_OneOutstandingSave ==
  /\ Len(pending) <= 1
  /\ Len(pending) = 1 => (isSaving /\ SaveDisabled /\ CancelDisabled)

\* a save is outstanding while the editor is shown with unsaved text
C9_Witness ==
  /\ Len(pending) = 1
  /\ opened
  /\ isEditing
  /\ isDirty
  /\ saves < MaxSaves

\* C10: save is enabled only when the edited text differs from the original:
\* wherever editedValue equals originalValue the Save button is disabled, and
\* handleSave run in such a state, or with no selected node, neither reads nor
\* writes the store and changes no component state.
C10_SaveNeedsChanges ==
  /\ [](editedValue = originalValue => SaveDisabled)
  /\ [][(handleSaveInvoked /\ (nodeData = NoNode \/ editedValue = originalValue)) =>
          UNCHANGED <<opened, nodeData, contents, isEditing, editedValue, originalValue,
                      isSaving, validationHint, pending, saves>>]_vars

\* handleSave was run on unchanged text in the editor
C10_Witness ==
  /\ toast = ToastNoChanges
  /\ isEditing
  /\ editedValue = originalValue
  /\ pending = <<>>

(***************************************************************************)
(* Edited text that is not JSON.                                           *)
(***************************************************************************)
\* C11: edited text that is not parseable JSON is not an error: the save runs
\* as the save of the JSON string literal of that text would (same outcome,
\* same text handed to setContents), the string is the value at the node's
\* path in the new contents, the advisory hint is set, and when setContents
\* resolves the modal is viewing with the edited text as its baseline, the
\* success notice shown and the store holding the new contents.
C11_UnparseableSavedAsString ==
  /\ [][(ClickSave /\ JsonParse(contents).ok /\ ~JsonParse(editedValue).ok) =>
          LET run == SaveRun(contents, nodeData.path, editedValue)
              asJson == SaveRun(contents, nodeData.path, Stringify(Str(editedValue)))
          IN /\ run.kind = asJson.kind
             /\ validationHint'
             /\ run.kind = "ok" =>
                  /\ run.newContents = asJson.newContents
                  /\ Len(pending') = Len(pending) + 1
                  /\ pending'[Len(pending')].newContents = run.newContents
                  /\ pending'[Len(pending')].editedValue = editedValue
                  /\ TreeAt(JsonParse(run.newContents).v, KeyPath(nodeData.path)) =
                       Str(editedValue)]_vars
  /\ [][\A i \in 1..Len(pending) :
          (setContentsResolved(i) /\ ~JsonParse(pending[i].editedValue).ok) =>
            /\ ~isEditing'
            /\ originalValue' = pending[i].editedValue
            /\ toast' = ToastUpdated
            /\ contents' = pending[i].newContents]_vars

\* the text ab was saved at a non-empty path: the store holds it there as a
\* string, the hint is shown and the modal is viewing with ab as baseline
C11_Witness ==
  /\ toast = ToastUpdated
  /\ validationHint
  /\ ~isEditing
  /\ ~isSaving
  /\ nodeData.path # <<>>
  /\ originalValue = <<"a", "b">>
  /\ editedValue = originalValue
  /\ TreeAt(JsonParse(contents).v, KeyPath(nodeData.path)) = Str(<<"a", "b">>)

(***************************************************************************)
(* Cancel.                                                                 *)
(***************************************************************************)
\* C12: the cancel action, taken from editing, discards the edits: afterwards
\* the modal is viewing, editedValue equals the baseline originalValue that held
\* before the cancel, the validation hint is cleared, originalValue is
\* unchanged, and the store is not written (its contents are unchanged and no
\* setContents call is made).
C12_CancelDiscards ==
  [][(handleCancel /\ isEditing) =>
       /\ ~isEditing'
       /\ editedValue' = originalValue
       /\ ~validationHint'
       /\ originalValue' = originalValue
       /\ contents' = contents
       /\ pending' = pending
       /\ toast' = ToastDiscarded]_vars

\* edits were cancelled after an earlier save attempt had ended: the shown
\* text is back at the baseline the node's rows gave
C12_Witness ==
  /\ toast = ToastDiscarded
  /\ opened
  /\ ~isEditing
  /\ ~validationHint
  /\ editedValue = originalValue
  /\ originalValue = normalizeNodeData(RowList(nodeData.text))
  /\ saves > 0
  /\ pending = <<>>

(***************************************************************************)
(* The editor text of a node.                                              *)
(***************************************************************************)
\* the row has a key
HasKey(row) == row.key.t = "string"
\* the row has a key that is not the empty string
HasNonEmptyKey(row) == HasKey(row) /\ Len(row.key.s) > 0
IsPrimitiveType(row) == row.type # "array" /\ row.type # "object"
KeyedPrimitive(row) == HasKey(row) /\ IsPrimitiveType(row)
NamedPrimitive(row) == HasNonEmptyKey(row) /\ IsPrimitiveType(row)

RECURSIVE ObjectOfRows(_, _, _)
\* the object that maps each row's key to the row's value
ObjectOfRows(o, rows, i) ==
  IF i > Len(rows) THEN o
  ELSE ObjectOfRows(PutProp(o, rows[i].key.s, rows[i].value), rows, i + 1)

\* a primitive rendered directly
Rendered(v) == IF v.t = "null" THEN <<"n", "u", "l", "l">> ELSE TemplateString(v)

\* the text of a single row without a key
SingleValueText(v) == IF v.t \in {"object", "array"} THEN Stringify(v) ELSE Rendered(v)

\* the pretty-printed object of the selected rows, "{}" when there is none
SelectedRowsText(sel) ==
  IF Len(sel) = 0 THEN <<"{", "}">> ELSE Stringify(ObjectOfRows(EmptyObj, sel, 1))

\* C13 as claimed: normalizeNodeData returns "{}" for an absent or empty row
\* list; for a single row without a key the pretty-printed JSON of an object or
\* array value and the primitive rendered directly otherwise; for multiple rows
\* the pretty-printed object of exactly the rows that have a key and whose type
\* is neither array nor object, or "{}" when no such row exists.
C13_NormalizeAsClaimed ==
  fpc = "normalized" =>
    IF fRows.t = "undefined" THEN fOut = <<"{", "}">>
    ELSE IF Len(fRows.e) = 0 THEN fOut = <<"{", "}">>
    ELSE IF Len(fRows.e) = 1
      THEN ~HasKey(fRows.e[1]) => fOut = SingleValueText(fRows.e[1].value)
    ELSE fOut = SelectedRowsText(SelectSeq(fRows.e, KeyedPrimitive))

\* C13 for the keys the code counts: with "has a key" read as "has a key that
\* is not the empty string", normalizeNodeData returns "{}" for an absent or
\* empty row list, the value's text for a single row without such a key, and
\* otherwise (one row or more) the pretty-printed object of exactly the rows
\* with such a key whose type is neither array nor object, or "{}" when there
\* is none.  Normalizer([{value:"x"}]) is x, and
\* Normalizer([{key:"a",value:1,type:"number"},{key:"b",value:[],type:"array"}])
\* is the pretty-printed {"a":1}.
C13_NormalizeNonEmptyKeys ==
  /\ fpc = "normalized" =>
       IF fRows.t = "undefined" THEN fOut = <<"{", "}">>
       ELSE IF Len(fRows.e) = 0 THEN fOut = <<"{", "}">>
       ELSE IF Len(fRows.e) = 1 /\ ~HasNonEmptyKey(fRows.e[1])
         THEN fOut = SingleValueText(fRows.e[1].value)
       ELSE fOut = SelectedRowsText(SelectSeq(fRows.e, NamedPrimitive))
  /\ (fpc = "normalized" /\ fRows = RowList(<<Row(Undef, Str(<<"x">>), "string")>>)) =>
       fOut = <<"x">>
  /\ (/\ fpc = "normalized"
      /\ fRows = RowList(<<Row(Str(KeyA), Num(1), "number"),
                           Row(Str(KeyB), Arr(<<>>), "array")>>)) =>
       fOut = Stringify(O1(KeyA, Num(1)))

\* a list of two rows, one with a name and a primitive, one an array child:
\* the text is the object of the first alone
C13_Witness ==
  /\ fpc = "normalized"
  /\ fRows.t = "array"
  /\ Len(fRows.e) = 2
  /\ NamedPrimitive(fRows.e[1])
  /\ fRows.e[2].type = "array"
  /\ JsonParse(fOut).ok
  /\ DOMAIN JsonParse(fOut).v.f = {fRows.e[1].key.s}

(***************************************************************************)
(* The displayed path.                                                     *)
(***************************************************************************)
RECURSIVE CountChar(_, _)
\* how many times the character c occurs in s
CountChar(s, c) ==
  IF Len(s) = 0 THEN 0
  ELSE (IF Head(s) = c THEN 1 ELSE 0) + CountChar(Tail(s), c)

RECURSIVE QuotesEscaped(_)
\* the key with a backslash put before each double quote
QuotesEscaped(k) ==
  IF Len(k) = 0 THEN <<>>
  ELSE IF k[Len(k)] = "\""
    THEN QuotesEscaped(SubSeq(k, 1, Len(k) - 1)) \o <<"\\", "\"">>
    ELSE QuotesEscaped(SubSeq(k, 1, Len(k) - 1)) \o <<k[Len(k)]>>

\* the bracket group of a segment: ["key"] or [index]
BracketGroup(seg) ==
  IF seg.t = "string" THEN <<"[", "\"">> \o QuotesEscaped(seg.s) \o <<"\"", "]">>
  ELSE <<"[">> \o NumToStr(seg.n) \o <<"]">>

RECURSIVE GroupsOf(_)
\* the bracket groups of the segments, in path order, nothing between them
GroupsOf(segs) ==
  IF Len(segs) = 0 THEN <<>> ELSE BracketGroup(Head(segs)) \o GroupsOf(Tail(segs))

RECURSIVE CountInKeys(_, _)
\* how many times the character c occurs in the string segments
CountInKeys(segs, c) ==
  IF Len(segs) = 0 THEN 0
  ELSE (IF Head(segs).t = "string" THEN CountChar(Head(segs).s, c) ELSE 0)
         + CountInKeys(Tail(segs), c)

\* C14: jsonPathToString returns "$" for an absent or empty path and otherwise
\* "$" followed, in path order and with no separator, by one bracket group per
\* segment: ["key"] for a string segment with every embedded double quote
\* escaped, [index] for an integer segment; the number of bracket groups (the
\* opening and the closing brackets that are not characters of a key) equals
\* the path length.  PathFormat(["a",0]) is $["a"][0].
C14_PathFormat ==
  /\ (fpc = "formatted" /\ fPath.t = "undefined") => fOut = <<"$">>
  /\ (fpc = "formatted" /\ fPath.t = "array") =>
       /\ Len(fPath.e) = 0 => fOut = <<"$">>
       /\ fOut = <<"$">> \o GroupsOf(fPath.e)
       /\ CountChar(fOut, "[") - CountInKeys(fPath.e, "[") = Len(fPath.e)
       /\ CountChar(fOut, "]") - CountInKeys(fPath.e, "]") = Len(fPath.e)
       /\ CountChar(fOut, "\\") - CountInKeys(fPath.e, "\\") = CountInKeys(fPath.e, "\"")
  /\ (fpc = "formatted" /\ fPath = PathList(<<Str(KeyA), Num(0)>>)) =>
       fOut = <<"$", "[", "\"", "a", "\"", "]", "[", "0", "]">>

\* a path of a key holding a double quote and a two-digit index was formatted
C14_Witness ==
  /\ fpc = "formatted"
  /\ fPath = PathList(<<Str(<<"a", "\"", "b">>), Num(10)>>)
  /\ fOut = <<"$", "[", "\"", "a", "\\", "\"", "b", "\"", "]", "[", "1", "0", "]">>

(***************************************************************************)
(* What an object-valued edit leaves of the document.                      *)
(***************************************************************************)
\* the edited text of a save is JSON for a non-null, non-array object
ObjectEdit(call) ==
  JsonParse(call.editedValue).ok /\ JsonParse(call.editedValue).v.t = "object"

\* the value at a path in the document a text holds
StoreAt(text, nodePath) == TreeAt(JsonParse(text).v, KeyPath(nodePath))

\* in a step that writes the store: every key that the existing object at the
\* call's path had before and that the edited object does not mention is
\* present at the path afterwards, with the value it had
KeepsUnmentioned(call) ==
  \A k \in (DOMAIN StoreAt(contents, call.path).f)
             \ (DOMAIN JsonParse(call.editedValue).v.f) :
    /\ StoreAt(contents', call.path).t = "object"
    /\ k \in DOMAIN StoreAt(contents', call.path).f
    /\ Plain(StoreAt(contents', call.path).f[k]) = Plain(StoreAt(contents, call.path).f[k])

\* C15 as claimed: a successful save of an object-valued edit never removes
\* data from the document, whatever the node's path, the empty (root) path
\* included: every key that the existing object at the path had before the
\* save and that the edited object does not mention is still present with its
\* previous value afterwards.
C15_ObjectEditKeepsData ==
  [][\A i \in 1..Len(pending) :
       (/\ setContentsResolved(i)
        /\ ObjectEdit(pending[i])
        /\ StoreAt(contents, pending[i].path).t = "object") =>
         KeepsUnmentioned(pending[i])]_vars

\* C15 below the root: a successful save of an object-valued edit at a
\* non-empty path keeps every unmentioned key of the existing object with its
\* value.
C15_ObjectEditKeepsDataBelowRoot ==
  [][\A i \in 1..Len(pending) :
       (/\ setContentsResolved(i)
        /\ ObjectEdit(pending[i])
        /\ StoreAt(contents, pending[i].path).t = "object"
        /\ Len(pending[i].path) > 0) =>
         KeepsUnmentioned(pending[i])]_vars

\* {"y":2} was saved at the path ["a"], where {"x":1} was: the store holds x
\* beside y, and b as before
C15_Witness ==
  /\ toast = ToastUpdated
  /\ pending = <<>>
  /\ nodeData.path = <<Str(KeyA)>>
  /\ originalValue = <<"{", "\"", "y", "\"", ":", "2", "}">>
  /\ JsonParse(contents).ok
  /\ DOMAIN JsonParse(contents).v.f = {KeyA, KeyB}
  /\ StoreAt(contents, nodeData.path).t = "object"
  /\ DOMAIN StoreAt(contents, nodeData.path).f = {KeyX, KeyY}

(***************************************************************************)
(* Viewing and the baseline.                                               *)
(***************************************************************************)
\* viewing, no save in progress, and the shown text is not the baseline
DirtyView == ~isEditing /\ ~isSaving /\ editedValue # originalValue

\* C16 as claimed: in every reachable state in which the modal is viewing
\* (isEditing false) and no save is in progress (isSaving false), the displayed
\* text equals the baseline: editedValue = originalValue.
C16_ViewingNotDirty == (~isEditing /\ ~isSaving) => editedValue = originalValue

\* C16, what holds: a viewing state whose text is not the baseline arises only
\* when a setContents call resolves for a save whose edited text is no longer
\* the text shown (the user typed on, or another node was selected, while the
\* call was pending); no other step leads into such a state.
C16_DirtyViewOnlyByLateResolve ==
  [][(~DirtyView /\ DirtyView') =>
       \E i \in 1..Len(pending) :
         /\ setContentsResolved(i)
         /\ pending[i].editedValue # editedValue]_vars

\* the user typed 7 while the save of another text was pending; the save
\* resolved: the modal is viewing, shows 7, and its baseline is the saved text
C16_Witness ==
  /\ DirtyView
  /\ opened
  /\ toast = ToastUpdated
  /\ pending = <<>>
  /\ editedValue = <<"7">>
  /\ originalValue # normalizeNodeData(RowList(nodeData.text))

(***************************************************************************)
(* The saving flag.                                                        *)
(***************************************************************************)
\* C17: every save attempt that sets the saving flag eventually clears it,
\* provided the setContents call settles: the flag is set only while a
\* setContents call is pending, the runs of handleSave that end without one
\* (invalid document, thrown error) and the resumptions after one (fulfilled or
\* rejected) leave it false, and whenever it is true it becomes false again, so
\* save and cancel are never disabled for ever.
C17_SavingEventuallyCleared ==
  /\ [](isSaving => Len(pending) > 0)
  /\ [][(ClickSave /\ pending' = pending) => ~isSaving']_vars
  /\ [][(Resolve \/ Reject) => ~isSaving']_vars
  /\ isSaving ~> ~isSaving
  /\ (SaveDisabled /\ CancelDisabled) ~> ~CancelDisabled

\* a save was rejected by setContents and the flag is cleared: the store holds
\* the document it was opened with, which no edit of the model makes the
\* updater throw on
C17_Witness ==
  /\ ~isSaving
  /\ toast = ToastFailed
  /\ pending = <<>>
  /\ isEditing
  /\ isDirty
  /\ contents \in StoreTexts
  /\ JsonParse(contents).ok
====
